---- MODULE Spec2Model ----
(***************************************************************************)
(* The two raylib demo programs of the repository,                          *)
(*   src/c-cpp/sample-project/src/main.c    (variant "c")                   *)
(*   src/c-cpp/sample-project/src/main.cpp  (variant "cpp")                 *)
(* as state machines.  Each variant is one run of main(): a program         *)
(* counter, its local variables, its return value and the trace of calls    *)
(* it has made into the graphics library.  Both runs read the same          *)
(* environment: the k-th WindowShouldClose poll of either run returns the   *)
(* k-th entry of closeTape and the k-th UpdateCamera of either run consumes *)
(* the k-th entry of inputTape.  The tapes are extended by whichever run    *)
(* gets there first.                                                        *)
(***************************************************************************)
EXTENDS Integers, Sequences, FiniteSets

VARIABLES pc, camera, cube_position, returned, calls, closeTape, inputTape

vars == <<pc, camera, cube_position, returned, calls, closeTape, inputTape>>

\* ------------------------------------------------------------------ bounds
\* At most MaxFrames polls may answer "keep running"; the next poll closes.
MaxFrames == 3

\* --------------------------------------------------------------- constants
screenWidth == 800
screenHeight == 450

Variants == {"c", "cpp"}

\* The user input one UpdateCamera call consumes: a pan of the camera.
Inputs == {<<0, 0, 0>>, <<1, 0, 0>>}

\* What an automatic Camera3D can hold before any field is assigned: the
\* bytes left on the stack, all zero or not.
GarbageCamera ==
    {[target |-> <<0, 0, 0>>, position |-> <<0, 0, 0>>, up |-> <<0, 0, 0>>,
      fovy |-> 0, projection |-> "CAMERA_PERSPECTIVE"],
     [target |-> <<7, 7, 7>>, position |-> <<7, 7, 7>>, up |-> <<7, 7, 7>>,
      fovy |-> 7, projection |-> "CAMERA_ORTHOGRAPHIC"]}

\* A local variable whose declaration has not been reached yet.
NoCamera ==
    [target |-> <<>>, position |-> <<>>, up |-> <<>>, fovy |-> 0,
     projection |-> "undeclared"]

NoVector == <<>>

\* ----------------------------------------------------------------- helpers
Call(op, args, ret) == [op |-> op, args |-> args, ret |-> ret]

VecAdd(a, b) == <<a[1] + b[1], a[2] + b[2], a[3] + b[3]>>

\* Number of entries of log that are calls of op.
Count(log, op) == Cardinality({i \in DOMAIN log : log[i].op = op})

\* The free-camera update of the library: it moves the camera it is handed
\* according to the input of this frame and touches nothing else.
UpdateCameraEffect(cam, in) ==
    [cam EXCEPT !.position = VecAdd(@, in), !.target = VecAdd(@, in)]

\* The initial camera position of each variant.
CameraStart(v) == IF v = "c" THEN <<10, 10, 10>> ELSE <<5, 5, 5>>

\* ------------------------------------------------------------ control flow
\* Faulty loop conditions: the negation dropped; the answer ignored.
LoopBranchInverted(close) == IF close THEN "UpdateCamera" ELSE "CloseWindow"

LoopBranchForever(close) == "UpdateCamera"

\* while (!WindowShouldClose()): where the loop goes on the poll's answer.
LoopBranch(close) == IF close THEN "CloseWindow" ELSE "UpdateCamera"

\* The statements of main() in source order: the statement written after
\* statement l in variant v (the loop body closes back on the loop condition).
StatementOrder(v, l) ==
    CASE l = "SetConfigFlags"  -> "InitWindow"
      [] l = "InitWindow"      -> "SetTargetFPS"
      [] l = "SetTargetFPS"    -> IF v = "c" THEN "InitCamera" ELSE "DeclCamera"
      [] l = "InitCamera"      -> "InitCube"
      [] l = "DeclCamera"      -> "SetCameraTarget"
      [] l = "SetCameraTarget" -> "SetCameraPosition"
      [] l = "SetCameraPosition" -> "SetCameraUp"
      [] l = "SetCameraUp"     -> "SetCameraFovy"
      [] l = "SetCameraFovy"   -> "SetCameraProjection"
      [] l = "SetCameraProjection" -> "InitCube"
      [] l = "InitCube"        -> "WindowShouldClose"
      [] l = "UpdateCamera"    -> "BeginDrawing"
      [] l = "BeginDrawing"    -> "ClearBackground"
      [] l = "ClearBackground" -> "BeginMode3D"
      [] l = "BeginMode3D"     -> "DrawCube"
      [] l = "DrawCube"        -> "DrawGrid"
      [] l = "DrawGrid"        -> "EndMode3D"
      [] l = "EndMode3D"       -> "DrawText"
      [] l = "DrawText"        -> "EndDrawing"
      [] l = "EndDrawing"      -> "WindowShouldClose"
      [] l = "CloseWindow"     -> "Return"
      [] l = "Return"          -> "Done"

\* --- faulty statement orders, used to show what each property rests on
\* EndDrawing left out of the loop body.
FlowNoPresent(v, l) ==
    IF l = "DrawText" THEN "WindowShouldClose" ELSE StatementOrder(v, l)

\* DrawGrid left out of the loop body.
FlowNoGrid(v, l) ==
    IF l = "DrawCube" THEN "EndMode3D" ELSE StatementOrder(v, l)

\* DrawText written before EndMode3D.
FlowTextIn3D(v, l) ==
    CASE l = "DrawGrid"  -> "DrawText"
      [] l = "DrawText"  -> "EndMode3D"
      [] l = "EndMode3D" -> "EndDrawing"
      [] OTHER           -> StatementOrder(v, l)

\* DrawGrid written before DrawCube.
FlowGridFirst(v, l) ==
    CASE l = "BeginMode3D" -> "DrawGrid"
      [] l = "DrawGrid"    -> "DrawCube"
      [] l = "DrawCube"    -> "EndMode3D"
      [] OTHER             -> StatementOrder(v, l)

\* The loop condition tested again right after EndMode3D.
FlowAbortMidFrame(v, l) ==
    IF l = "EndMode3D" THEN "WindowShouldClose" ELSE StatementOrder(v, l)

\* ClearBackground left out of the loop body.
FlowNoClear(v, l) ==
    IF l = "BeginDrawing" THEN "BeginMode3D" ELSE StatementOrder(v, l)

\* Only main.cpp lacks the DrawGrid call.
FlowCppNoGrid(v, l) ==
    IF v = "cpp" /\ l = "DrawCube" THEN "EndMode3D" ELSE StatementOrder(v, l)

\* Control falls from statement l of variant v to the statement after it.
Flow(v, l) == StatementOrder(v, l)

\* Statement l of variant v calls the library (call) and falls through.
Emit(v, l, call) ==
    /\ pc[v] = l
    /\ calls' = [calls EXCEPT ![v] = Append(@, call)]
    /\ pc' = [pc EXCEPT ![v] = Flow(v, l)]

\* Statement l of variant v only moves on to the next statement.
Goto(v, l) ==
    /\ pc[v] = l
    /\ pc' = [pc EXCEPT ![v] = Flow(v, l)]

\* -------------------------------------------------------------------- Init
Init ==
    /\ pc = [v \in Variants |-> "SetConfigFlags"]
    /\ camera = [v \in Variants |-> NoCamera]
    /\ cube_position = [v \in Variants |-> NoVector]
    /\ returned = [v \in Variants |-> <<>>]
    /\ calls = [v \in Variants |-> <<>>]
    /\ closeTape = <<>>
    /\ inputTape = <<>>

\* ------------------------------------------------------------------- setup
SetConfigFlags(v) ==
    /\ Emit(v, "SetConfigFlags",
            Call("SetConfigFlags", <<"FLAG_WINDOW_RESIZABLE">>, <<>>))
    /\ UNCHANGED <<camera, cube_position, returned, closeTape, inputTape>>

InitWindow(v) ==
    /\ Emit(v, "InitWindow",
            Call("InitWindow", <<screenWidth, screenHeight, "Raylib Test">>, <<>>))
    /\ UNCHANGED <<camera, cube_position, returned, closeTape, inputTape>>

SetTargetFPS(v) ==
    /\ Emit(v, "SetTargetFPS", Call("SetTargetFPS", <<60>>, <<>>))
    /\ UNCHANGED <<camera, cube_position, returned, closeTape, inputTape>>

\* main.c: Camera3D camera = { .target = ..., ... };
InitCamera(v) ==
    /\ Goto(v, "InitCamera")
    /\ camera' = [camera EXCEPT ![v] =
            [target |-> <<0, 0, 0>>, position |-> CameraStart(v),
             up |-> <<0, 1, 0>>, fovy |-> 75,
             projection |-> "CAMERA_PERSPECTIVE"]]
    /\ UNCHANGED <<cube_position, returned, calls, closeTape, inputTape>>

\* main.cpp: Camera3D camera;  (every field indeterminate)
DeclCamera(v) ==
    /\ Goto(v, "DeclCamera")
    /\ \E g \in GarbageCamera : camera' = [camera EXCEPT ![v] = g]
    /\ UNCHANGED <<cube_position, returned, calls, closeTape, inputTape>>

SetCameraTarget(v) ==
    /\ Goto(v, "SetCameraTarget")
    /\ camera' = [camera EXCEPT ![v].target = <<0, 0, 0>>]
    /\ UNCHANGED <<cube_position, returned, calls, closeTape, inputTape>>

SetCameraPosition(v) ==
    /\ Goto(v, "SetCameraPosition")
    /\ camera' = [camera EXCEPT ![v].position = CameraStart(v)]
    /\ UNCHANGED <<cube_position, returned, calls, closeTape, inputTape>>

SetCameraUp(v) ==
    /\ Goto(v, "SetCameraUp")
    /\ camera' = [camera EXCEPT ![v].up = <<0, 1, 0>>]
    /\ UNCHANGED <<cube_position, returned, calls, closeTape, inputTape>>

SetCameraFovy(v) ==
    /\ Goto(v, "SetCameraFovy")
    /\ camera' = [camera EXCEPT ![v].fovy = 75]
    /\ UNCHANGED <<cube_position, returned, calls, closeTape, inputTape>>

SetCameraProjection(v) ==
    /\ Goto(v, "SetCameraProjection")
    /\ camera' = [camera EXCEPT ![v].projection = "CAMERA_PERSPECTIVE"]
    /\ UNCHANGED <<cube_position, returned, calls, closeTape, inputTape>>

InitCube(v) ==
    /\ Goto(v, "InitCube")
    /\ cube_position' = [cube_position EXCEPT ![v] = <<0, 0, 0>>]
    /\ UNCHANGED <<camera, returned, calls, closeTape, inputTape>>

\* --------------------------------------------------------------- the loop
\* while (!WindowShouldClose()): the k-th poll of a run reads closeTape[k];
\* a poll past the end of the tape gets a fresh answer from the environment.
WindowShouldClose(v) ==
    /\ pc[v] = "WindowShouldClose"
    /\ LET k == Count(calls[v], "WindowShouldClose") + 1 IN
       \E close \in BOOLEAN :
          /\ IF k <= Len(closeTape)
                THEN close = closeTape[k] /\ UNCHANGED closeTape
                ELSE /\ (k > MaxFrames => close)
                     /\ closeTape' = Append(closeTape, close)
          /\ calls' = [calls EXCEPT ![v] =
                Append(@, Call("WindowShouldClose", <<>>, <<close>>))]
          /\ pc' = [pc EXCEPT ![v] = LoopBranch(close)]
    /\ UNCHANGED <<camera, cube_position, returned, inputTape>>

\* Faulty call: the camera handed over by value, so main's camera is not
\* the one the library updated.
UpdateCameraByValue(v) ==
    /\ pc[v] = "UpdateCamera"
    /\ LET k == Count(calls[v], "UpdateCamera") + 1 IN
       \E in \in Inputs :
          /\ IF k <= Len(inputTape)
                THEN in = inputTape[k] /\ UNCHANGED inputTape
                ELSE inputTape' = Append(inputTape, in)
          /\ calls' = [calls EXCEPT ![v] =
                Append(@, Call("UpdateCamera", <<camera[v], "CAMERA_FREE">>,
                               <<UpdateCameraEffect(camera[v], in)>>))]
    /\ pc' = [pc EXCEPT ![v] = Flow(v, "UpdateCamera")]
    /\ UNCHANGED <<camera, cube_position, returned, closeTape>>

\* UpdateCamera(&camera, CAMERA_FREE): the library rewrites camera in place.
UpdateCamera(v) ==
    /\ pc[v] = "UpdateCamera"
    /\ LET k == Count(calls[v], "UpdateCamera") + 1 IN
       \E in \in Inputs :
          /\ IF k <= Len(inputTape)
                THEN in = inputTape[k] /\ UNCHANGED inputTape
                ELSE inputTape' = Append(inputTape, in)
          /\ camera' = [camera EXCEPT ![v] = UpdateCameraEffect(@, in)]
          /\ calls' = [calls EXCEPT ![v] =
                Append(@, Call("UpdateCamera", <<camera[v], "CAMERA_FREE">>,
                               <<UpdateCameraEffect(camera[v], in)>>))]
    /\ pc' = [pc EXCEPT ![v] = Flow(v, "UpdateCamera")]
    /\ UNCHANGED <<cube_position, returned, closeTape>>

BeginDrawing(v) ==
    /\ Emit(v, "BeginDrawing", Call("BeginDrawing", <<>>, <<>>))
    /\ UNCHANGED <<camera, cube_position, returned, closeTape, inputTape>>

ClearBackground(v) ==
    /\ Emit(v, "ClearBackground", Call("ClearBackground", <<"GRAY">>, <<>>))
    /\ UNCHANGED <<camera, cube_position, returned, closeTape, inputTape>>

BeginMode3D(v) ==
    /\ Emit(v, "BeginMode3D", Call("BeginMode3D", <<camera[v]>>, <<>>))
    /\ UNCHANGED <<camera, cube_position, returned, closeTape, inputTape>>

DrawCube(v) ==
    /\ Emit(v, "DrawCube",
            Call("DrawCube", <<cube_position[v], 2, 2, 2, "RED">>, <<>>))
    /\ UNCHANGED <<camera, cube_position, returned, closeTape, inputTape>>

DrawGrid(v) ==
    /\ Emit(v, "DrawGrid", Call("DrawGrid", <<10, 1>>, <<>>))
    /\ UNCHANGED <<camera, cube_position, returned, closeTape, inputTape>>

EndMode3D(v) ==
    /\ Emit(v, "EndMode3D", Call("EndMode3D", <<>>, <<>>))
    /\ UNCHANGED <<camera, cube_position, returned, closeTape, inputTape>>

DrawText(v) ==
    /\ Emit(v, "DrawText",
            Call("DrawText", <<"Test", 10, 10, 16, <<255, 255, 255, 255>>>>, <<>>))
    /\ UNCHANGED <<camera, cube_position, returned, closeTape, inputTape>>

EndDrawing(v) ==
    /\ Emit(v, "EndDrawing", Call("EndDrawing", <<>>, <<>>))
    /\ UNCHANGED <<camera, cube_position, returned, closeTape, inputTape>>

\* ---------------------------------------------------------------- teardown
CloseWindow(v) ==
    /\ Emit(v, "CloseWindow", Call("CloseWindow", <<>>, <<>>))
    /\ UNCHANGED <<camera, cube_position, returned, closeTape, inputTape>>

\* return 0;
Return(v) ==
    /\ Goto(v, "Return")
    /\ returned' = [returned EXCEPT ![v] = <<0>>]
    /\ UNCHANGED <<camera, cube_position, calls, closeTape, inputTape>>

\* One statement of variant v.
Step(v) ==
    \/ SetConfigFlags(v)
    \/ InitWindow(v)
    \/ SetTargetFPS(v)
    \/ InitCamera(v)
    \/ DeclCamera(v)
    \/ SetCameraTarget(v)
    \/ SetCameraPosition(v)
    \/ SetCameraUp(v)
    \/ SetCameraFovy(v)
    \/ SetCameraProjection(v)
    \/ InitCube(v)
    \/ WindowShouldClose(v)
    \/ UpdateCamera(v)
    \/ BeginDrawing(v)
    \/ ClearBackground(v)
    \/ BeginMode3D(v)
    \/ DrawCube(v)
    \/ DrawGrid(v)
    \/ EndMode3D(v)
    \/ DrawText(v)
    \/ EndDrawing(v)
    \/ CloseWindow(v)
    \/ Return(v)

Next == \E v \in Variants : Step(v)

Spec == Init /\ [][Next]_vars

\* Each run is a single thread that keeps executing: no call of the library
\* blocks, so a run that has a next statement eventually executes it.
FairSpec == Spec /\ \A v \in Variants : WF_vars(Step(v))

\* ------------------------------------------------------ reading the traces
IsPoll(e) == e.op = "WindowShouldClose"

\* The polls a run has made, in order, and the answer of the k-th one.
Polls(log) == SelectSeq(log, IsPoll)
NumPolls(log) == Len(Polls(log))
PollResult(log, k) == Polls(log)[k].ret[1]

\* The iteration entry i belongs to: the number of polls up to and including
\* it (0 for the calls made before the loop).
FrameOf(log, i) == Cardinality({j \in 1..i : IsPoll(log[j])})

\* Where the k-th poll stands in the trace.
PollIdx(log, k) == CHOOSE i \in DOMAIN log : IsPoll(log[i]) /\ FrameOf(log, i) = k

\* The calls made after the k-th poll and before the next one.
FrameCalls(log, k) ==
    SubSeq(log, PollIdx(log, k) + 1,
           IF k < NumPolls(log) THEN PollIdx(log, k + 1) - 1 ELSE Len(log))

OpsOf(log) == [i \in DOMAIN log |-> log[i].op]

\* One full frame: update, clear, 3D draw, overlay draw, present.
FrameBody ==
    <<"UpdateCamera", "BeginDrawing", "ClearBackground", "BeginMode3D",
      "DrawCube", "DrawGrid", "EndMode3D", "DrawText", "EndDrawing">>

FrameOps == {FrameBody[i] : i \in DOMAIN FrameBody}

IsFullFrame(log, k) == OpsOf(FrameCalls(log, k)) = FrameBody

NumFullFrames(log) ==
    Cardinality({k \in 1..NumPolls(log) : IsFullFrame(log, k)})

\* The run has polled N >= 1 times; the first N-1 answers were false and the
\* N-th was true.
ClosedAtLastPoll(log) ==
    /\ NumPolls(log) >= 1
    /\ \A k \in 1..NumPolls(log) : PollResult(log, k) <=> (k = NumPolls(log))

\* Scope depth just before entry i: begins minus ends among the entries
\* before it.
Depth(log, i, begin, end) ==
    Cardinality({j \in 1..(i - 1) : log[j].op = begin})
      - Cardinality({j \in 1..(i - 1) : log[j].op = end})

DrawDepth(log, i) == Depth(log, i, "BeginDrawing", "EndDrawing")
Mode3DDepth(log, i) == Depth(log, i, "BeginMode3D", "EndMode3D")

SameCall(a, b) == a.op = b.op /\ a.args = b.args /\ a.ret = b.ret

PrefixOf(a, b) ==
    /\ Len(a) <= Len(b)
    /\ \A i \in DOMAIN a : SameCall(a[i], b[i])

\* seq holds exactly one call of op, and its arguments are args.
ExactlyOne(seq, op, args) ==
    /\ Count(seq, op) = 1
    /\ \A i \in DOMAIN seq : seq[i].op = op => seq[i].args = args

\* ------------------------------------------------------------------ claims

\* C1 as stated: when the first N-1 polls answer false and the N-th answers
\* true, the run has made exactly N full frame iterations and closed the
\* window exactly once.
C1_AsStated ==
    \A v \in Variants :
        (pc[v] = "Done" /\ ClosedAtLastPoll(calls[v])) =>
            /\ NumFullFrames(calls[v]) = NumPolls(calls[v])
            /\ Count(calls[v], "CloseWindow") = 1

\* C1 (amended): when the first N-1 polls answer false and the N-th answers
\* true, the run makes exactly N-1 full frame iterations (one per false
\* poll, none for the closing poll), and then closes the window exactly
\* once, as the last call it makes.
C1_FramesPerPoll ==
    \A v \in Variants :
        ClosedAtLastPoll(calls[v]) =>
            /\ NumFullFrames(calls[v]) = NumPolls(calls[v]) - 1
            /\ \A k \in 1..(NumPolls(calls[v]) - 1) : IsFullFrame(calls[v], k)
            /\ Count(calls[v], "CloseWindow") <= 1
            /\ pc[v] = "Done" =>
                  /\ Count(calls[v], "CloseWindow") = 1
                  /\ calls[v][Len(calls[v])].op = "CloseWindow"

C1_Witness ==
    \E v \in Variants :
        /\ pc[v] = "Done"
        /\ ClosedAtLastPoll(calls[v])
        /\ NumPolls(calls[v]) = 3
        /\ NumFullFrames(calls[v]) = 2

\* The whole trace of a run whose first poll answers true.
QuitAtOnceTrace ==
    <<Call("SetConfigFlags", <<"FLAG_WINDOW_RESIZABLE">>, <<>>),
      Call("InitWindow", <<800, 450, "Raylib Test">>, <<>>),
      Call("SetTargetFPS", <<60>>, <<>>),
      Call("WindowShouldClose", <<>>, <<TRUE>>),
      Call("CloseWindow", <<>>, <<>>)>>

\* C2: when the first poll answers true the run makes no frame call at all
\* (no UpdateCamera, BeginDrawing, draw or EndDrawing); it sets the
\* resizable flag, opens the 800x450 window "Raylib Test" once, closes it
\* once, and main returns 0.
C2_CloseOnFirstPoll ==
    \A v \in Variants :
        (NumPolls(calls[v]) >= 1 /\ PollResult(calls[v], 1)) =>
            /\ \A i \in DOMAIN calls[v] : calls[v][i].op \notin FrameOps
            /\ NumFullFrames(calls[v]) = 0
            /\ PrefixOf(calls[v], QuitAtOnceTrace)
            /\ returned[v] # <<>> => returned[v] = <<0>>
            /\ pc[v] = "Done" =>
                  /\ Len(calls[v]) = Len(QuitAtOnceTrace)
                  /\ returned[v] = <<0>>

C2_Witness ==
    \E v \in Variants :
        /\ pc[v] = "Done"
        /\ NumPolls(calls[v]) = 1
        /\ PollResult(calls[v], 1)

\* C3: when the polls answer false, false, false, true the run makes exactly
\* 3 frame iterations, and each of them holds exactly one DrawCube (centre
\* (0,0,0), size 2x2x2, red), exactly one DrawGrid (10 slices, spacing 1)
\* and exactly one DrawText ("Test" at (10,10), size 16, opaque white).
C3_ThreeFrames ==
    \A v \in Variants :
        ( /\ NumPolls(calls[v]) = 4
          /\ ClosedAtLastPoll(calls[v]) ) =>
            /\ NumFullFrames(calls[v]) = 3
            /\ \A k \in 1..3 :
                  /\ ExactlyOne(FrameCalls(calls[v], k), "DrawCube",
                                <<<<0, 0, 0>>, 2, 2, 2, "RED">>)
                  /\ ExactlyOne(FrameCalls(calls[v], k), "DrawGrid", <<10, 1>>)
                  /\ ExactlyOne(FrameCalls(calls[v], k), "DrawText",
                                <<"Test", 10, 10, 16, <<255, 255, 255, 255>>>>)

C3_Witness ==
    \E v \in Variants :
        /\ pc[v] = "Done"
        /\ NumPolls(calls[v]) = 4
        /\ ClosedAtLastPoll(calls[v])
        /\ Count(calls[v], "DrawCube") = 3

\* C4: in every frame iteration the 3D scope is entered exactly once, and it
\* has been left again before that iteration's DrawText; DrawText is never
\* issued while a 3D scope is open.
C4_OverlayOutside3D ==
    \A v \in Variants :
        LET log == calls[v] IN
        /\ \A i \in DOMAIN log :
              log[i].op = "DrawText" =>
                  /\ Mode3DDepth(log, i) = 0
                  /\ \E e \in 1..(i - 1) :
                        /\ log[e].op = "EndMode3D"
                        /\ \E b \in 1..(e - 1) :
                              /\ log[b].op = "BeginMode3D"
                              /\ FrameOf(log, b) = FrameOf(log, i)
        /\ \A k \in 1..NumPolls(log) :
              /\ Count(FrameCalls(log, k), "BeginMode3D") <= 1
              /\ (k < NumPolls(log) /\ ~PollResult(log, k)) =>
                    /\ Count(FrameCalls(log, k), "BeginMode3D") = 1
                    /\ Count(FrameCalls(log, k), "EndMode3D") = 1

C4_Witness ==
    \E v \in Variants :
        /\ Count(calls[v], "DrawText") >= 2
        /\ Count(calls[v], "BeginMode3D") = Count(calls[v], "DrawText")

\* C5: within every frame iteration DrawCube comes before DrawGrid, and both
\* are issued inside the 3D scope that iteration opened (after its
\* BeginMode3D, before its EndMode3D).
C5_CubeBeforeGrid ==
    \A v \in Variants :
        LET log == calls[v]
            In3DScopeOfFrame(i) ==
                /\ Mode3DDepth(log, i) = 1
                /\ \E b \in 1..(i - 1) :
                      /\ log[b].op = "BeginMode3D"
                      /\ FrameOf(log, b) = FrameOf(log, i)
                      /\ \A j \in b..i : log[j].op # "EndMode3D"
        IN
        /\ \A i \in DOMAIN log :
              /\ log[i].op = "DrawCube" =>
                    /\ In3DScopeOfFrame(i)
                    /\ \A j \in 1..i :
                          log[j].op = "DrawGrid" => FrameOf(log, j) < FrameOf(log, i)
              /\ log[i].op = "DrawGrid" =>
                    /\ In3DScopeOfFrame(i)
                    /\ \E j \in 1..(i - 1) :
                          /\ log[j].op = "DrawCube"
                          /\ FrameOf(log, j) = FrameOf(log, i)
        /\ \A k \in 1..NumPolls(log) :
              (k < NumPolls(log) /\ ~PollResult(log, k)) =>
                  /\ Count(FrameCalls(log, k), "DrawCube") = 1
                  /\ Count(FrameCalls(log, k), "DrawGrid") = 1

C5_Witness ==
    \E v \in Variants :
        /\ Count(calls[v], "DrawGrid") >= 2
        /\ Count(calls[v], "DrawCube") = Count(calls[v], "DrawGrid")

\* C6: in every frame iteration the camera handed to BeginMode3D is the
\* camera the UpdateCamera call of that same iteration produced:
\* UpdateCamera runs exactly once in the iteration before BeginMode3D and
\* nothing changes the camera in between.
C6_FreshCamera ==
    \A v \in Variants :
        LET log == calls[v]
            UpdatesBefore(i) ==
                {j \in 1..i : /\ log[j].op = "UpdateCamera"
                              /\ FrameOf(log, j) = FrameOf(log, i)}
        IN
        /\ \A i \in DOMAIN log :
              log[i].op = "BeginMode3D" =>
                  /\ Cardinality(UpdatesBefore(i)) = 1
                  /\ \A j \in UpdatesBefore(i) : log[i].args[1] = log[j].ret[1]
        /\ pc[v] \in {"BeginDrawing", "ClearBackground", "BeginMode3D"} =>
              \E j \in DOMAIN log :
                  /\ log[j].op = "UpdateCamera"
                  /\ FrameOf(log, j) = NumPolls(log)
                  /\ camera[v] = log[j].ret[1]
        /\ \A k \in 1..NumPolls(log) :
              Count(FrameCalls(log, k), "UpdateCamera") <= 1

\* Two frames have been drawn and the input moved the camera between them, so
\* a camera left over from the frame before would show.
C6_Witness ==
    \E v \in Variants :
        \E i \in DOMAIN calls[v], j \in DOMAIN calls[v] :
            /\ i < j
            /\ calls[v][i].op = "BeginMode3D"
            /\ calls[v][j].op = "BeginMode3D"
            /\ calls[v][i].args[1] # calls[v][j].args[1]

\* C7: the close request is polled only at the start of an iteration, with
\* no scope open; a true answer ends the loop there and CloseWindow is the
\* next call.  No frame is abandoned half way: when the loop has exited
\* every BeginDrawing and every BeginMode3D has its End, and CloseWindow is
\* never called inside a drawing scope or a 3D scope.
C7_NoMidFrameAbort ==
    \A v \in Variants :
        LET log == calls[v] IN
        /\ \A i \in DOMAIN log :
              /\ IsPoll(log[i]) =>
                    /\ DrawDepth(log, i) = 0
                    /\ Mode3DDepth(log, i) = 0
                    /\ i > 1 => log[i - 1].op \in {"SetTargetFPS", "EndDrawing"}
                    /\ (log[i].ret[1] /\ i < Len(log)) =>
                          log[i + 1].op = "CloseWindow"
              /\ log[i].op = "CloseWindow" =>
                    /\ DrawDepth(log, i) = 0
                    /\ Mode3DDepth(log, i) = 0
                    /\ i > 1
                    /\ IsPoll(log[i - 1])
                    /\ log[i - 1].ret[1]
        /\ pc[v] \in {"CloseWindow", "Return", "Done"} =>
              /\ Count(log, "BeginDrawing") = Count(log, "EndDrawing")
              /\ Count(log, "BeginMode3D") = Count(log, "EndMode3D")

C7_Witness ==
    \E v \in Variants :
        /\ pc[v] = "Done"
        /\ Count(calls[v], "EndDrawing") >= 2
        /\ Count(calls[v], "CloseWindow") = 1

\* A poll of the run has answered true.
Terminated(v) ==
    \E k \in 1..NumPolls(calls[v]) : PollResult(calls[v], k)

C8_Safety ==
    \A v \in Variants :
        LET log == calls[v] IN
        /\ pc[v] \in {"CloseWindow", "Return", "Done"} <=> Terminated(v)
        /\ Terminated(v) =>
              /\ ClosedAtLastPoll(log)
              /\ \A i \in DOMAIN log :
                    i > PollIdx(log, NumPolls(log)) => log[i].op = "CloseWindow"
              /\ Count(log, "CloseWindow") <= 1
        /\ Count(log, "CloseWindow") > 0 => Terminated(v)
        /\ returned[v] \in {<<>>, <<0>>}
        /\ returned[v] # <<>> =>
              /\ Terminated(v)
              /\ Count(log, "CloseWindow") = 1
        /\ pc[v] = "Done" => returned[v] = <<0>>

C8_Absorbing ==
    \A v \in Variants :
        Terminated(v) =>
            /\ Terminated(v)'
            /\ \/ calls'[v] = calls[v]
               \/ /\ Len(calls'[v]) = Len(calls[v]) + 1
                  /\ calls'[v][Len(calls'[v])].op = "CloseWindow"
                  /\ SubSeq(calls'[v], 1, Len(calls[v])) = calls[v]

\* C8: a run is Running from its start and becomes Terminated only when a
\* poll answers true; Terminated is absorbing (no poll, camera update or
\* draw call follows).  On that transition the window is closed by exactly
\* one CloseWindow and main returns 0, the only exit code; and once a poll
\* has answered true the run does end.
C8_StateMachine ==
    /\ \A v \in Variants : ~Terminated(v)
    /\ []C8_Safety
    /\ [][C8_Absorbing]_vars
    /\ \A v \in Variants :
          Terminated(v) ~>
              (pc[v] = "Done" /\ returned[v] = <<0>>
                 /\ Count(calls[v], "CloseWindow") = 1)

C8_Witness ==
    \E v \in Variants :
        /\ pc[v] = "Done"
        /\ returned[v] = <<0>>
        /\ NumPolls(calls[v]) >= 2
        /\ Terminated(v)

\* C9: every frame iteration makes the same calls in the same order:
\* WindowShouldClose (false), UpdateCamera(camera, CAMERA_FREE),
\* BeginDrawing, ClearBackground(GRAY), BeginMode3D, DrawCube, DrawGrid,
\* EndMode3D, DrawText, EndDrawing.  So the camera update is outside the
\* drawing scope, ClearBackground is the first call inside it, every draw
\* call is inside it, and the scopes are nested and closed when the
\* iteration ends.
C9_FrameOrder ==
    \A v \in Variants :
        LET log == calls[v]
            DrawCalls == {"ClearBackground", "BeginMode3D", "DrawCube",
                          "DrawGrid", "EndMode3D", "DrawText"}
        IN
        /\ \A k \in 1..NumPolls(log) :
              ~PollResult(log, k) =>
                  LET f == FrameCalls(log, k) IN
                  /\ Len(f) <= Len(FrameBody)
                  /\ \A i \in DOMAIN f : f[i].op = FrameBody[i]
                  /\ k < NumPolls(log) => Len(f) = Len(FrameBody)
        /\ \A i \in DOMAIN log :
              /\ log[i].op = "UpdateCamera" =>
                    /\ DrawDepth(log, i) = 0
                    /\ log[i].args[2] = "CAMERA_FREE"
              /\ log[i].op = "ClearBackground" =>
                    /\ log[i].args = <<"GRAY">>
                    /\ log[i - 1].op = "BeginDrawing"
              /\ log[i].op \in DrawCalls => DrawDepth(log, i) = 1
              /\ log[i].op = "EndDrawing" =>
                    /\ DrawDepth(log, i) = 1
                    /\ Mode3DDepth(log, i) = 0
              /\ IsPoll(log[i]) =>
                    /\ DrawDepth(log, i) = 0
                    /\ Mode3DDepth(log, i) = 0

C9_Witness ==
    \E v \in Variants :
        /\ NumFullFrames(calls[v]) >= 2
        /\ pc[v] = "DrawGrid"

\* A call with the camera it carries left out.
MaskCamera(e) ==
    IF e.op = "UpdateCamera" THEN Call(e.op, <<e.args[2]>>, <<>>)
    ELSE IF e.op = "BeginMode3D" THEN Call(e.op, <<>>, <<>>)
    ELSE e

SetupTrace ==
    <<Call("SetConfigFlags", <<"FLAG_WINDOW_RESIZABLE">>, <<>>),
      Call("InitWindow", <<800, 450, "Raylib Test">>, <<>>),
      Call("SetTargetFPS", <<60>>, <<>>)>>

\* The camera a variant enters the loop with.
LoopEntryCamera(v) ==
    [target |-> <<0, 0, 0>>,
     position |-> IF v = "c" THEN <<10, 10, 10>> ELSE <<5, 5, 5>>,
     up |-> <<0, 1, 0>>, fovy |-> 75, projection |-> "CAMERA_PERSPECTIVE"]

\* C10: given the same poll answers and the same input, main.c and main.cpp
\* make the same calls with the same arguments in the same order (setup,
\* frames, CloseWindow) and both return 0; they differ only in the camera
\* position they start from, (10,10,10) against (5,5,5), with target
\* (0,0,0), up (0,1,0), fovy 75 and perspective projection in both.
C10_VariantsEquivalent ==
    LET a == calls["c"]
        b == calls["cpp"]
        n == IF Len(a) <= Len(b) THEN Len(a) ELSE Len(b)
    IN
    /\ \A i \in 1..n : SameCall(MaskCamera(a[i]), MaskCamera(b[i]))
    /\ \A v \in Variants :
          /\ \A i \in DOMAIN calls[v] :
                i <= Len(SetupTrace) => SameCall(calls[v][i], SetupTrace[i])
          /\ (pc[v] = "WindowShouldClose" /\ NumPolls(calls[v]) = 0) =>
                camera[v] = LoopEntryCamera(v)
          /\ \A i \in DOMAIN calls[v] :
                (calls[v][i].op = "UpdateCamera" /\ FrameOf(calls[v], i) = 1) =>
                    calls[v][i].args[1] = LoopEntryCamera(v)
    /\ (pc["c"] = "Done" /\ pc["cpp"] = "Done") =>
          /\ Len(a) = Len(b)
          /\ returned["c"] = <<0>>
          /\ returned["cpp"] = <<0>>

C10_Witness ==
    /\ pc["c"] = "Done"
    /\ pc["cpp"] = "Done"
    /\ NumPolls(calls["c"]) >= 3
    /\ Len(calls["c"]) = Len(calls["cpp"])
====
